---- MODULE Spec2Model ----
(***************************************************************************)
(* A model of the regex engine: the NFA builder of graph.rs (Graph<T>),    *)
(* and the lexer and parser of parser.rs that drive it.                    *)
(*                                                                         *)
(* Handles (NodeIndex) are 0-based as in the source; the arena is a TLA+   *)
(* sequence, so node i is arena[i+1].  A panic (a failed assert!, an       *)
(* unwrap of None, an index out of bounds) is recorded in the field        *)
(* `panicked` of the graph value and ends the run.                         *)
(***************************************************************************)
EXTENDS Integers, Sequences, FiniteSets, TLC

VARIABLES
    graph,          \* Graph<CharCost>: arena, start, active
    ops,            \* the builder calls issued so far, in order
    regex,          \* parser()'s argument, a sequence of characters
    chars,          \* lexer: number of characters the iterator has consumed
    lex_string,     \* lexer: the lexemes pushed so far; then the parser's input
    in_class,       \* lexer: inside a bracket class
    lex_result,     \* lexer(): "pending", "Ok" or "Err"
    next_lexeme,    \* parser: number of lexemes the for loop has consumed
    group_starts,   \* parser: stack of group start handles
    state,          \* parser: ParserState
    pc,             \* "api" (direct builder calls), "class" (direct CharClass
                    \* calls), "lexer", "parser", "done"
    result,         \* parser(): "pending", "Ok", "Err" or "Panic"
    char_class      \* a CharClass value used on its own

vars == <<graph, ops, regex, chars, lex_string, in_class, lex_result,
          next_lexeme, group_starts, state, pc, result, char_class>>

----------------------------------------------------------------------------
(* Bounds of the model.                                                    *)

MaxOps == 4
MaxStr == 4
Labels == {<<"Singleton", "a">>, <<"Singleton", "b">>}
SubjectChars == {"a", "b"}

----------------------------------------------------------------------------
(* graph.rs                                                                *)

None == <<"None">>
Some(cost) == <<"Some", cost>>

Node_new(edges) == [edges |-> edges, endlinked |-> FALSE]

NodeAt(g, i) == g.arena[i + 1]

InArena(g, i) == i >= 0 /\ i < Len(g.arena)

Panic(g) == [g EXCEPT !.panicked = TRUE]

\* arena.push(Some(node)); the index returned is Len(arena) - 1
add_node(g, node) == [g EXCEPT !.arena = Append(@, node)]

\* a variant of set_active that forgets to open-mark the new active node
set_active_unmarked(g, new_active) ==
    IF g.panicked THEN g
    ELSE IF ~InArena(g, new_active) THEN Panic(g)
    ELSE [g EXCEPT !.active = new_active]

set_active(g, new_active) ==
    IF g.panicked THEN g
    ELSE IF ~InArena(g, new_active) THEN Panic(g)
    ELSE [g EXCEPT !.arena[new_active + 1].endlinked = TRUE,
                   !.active = new_active]

Graph_new ==
    LET g0 == [arena |-> <<>>, start |-> 0, active |-> 0, panicked |-> FALSE]
        g1 == add_node(g0, Node_new(<<>>))
    IN  set_active(g1, 0)

\* a variant of bump_endlinked that overwrites the node's edges
bump_endlinked_overwriting(g, endlinked, new, cost) ==
    IF g.panicked THEN g
    ELSE IF ~(Len(g.arena) >= endlinked /\ Len(g.arena) >= new) THEN Panic(g)
    ELSE IF ~InArena(g, endlinked) THEN Panic(g)
    ELSE IF ~NodeAt(g, endlinked).endlinked THEN Panic(g)
    ELSE [g EXCEPT !.arena[endlinked + 1] =
                      [edges |-> <<<<new, cost>>>>,
                       endlinked |-> FALSE]]

bump_endlinked(g, endlinked, new, cost) ==
    IF g.panicked THEN g
    ELSE IF ~(Len(g.arena) >= endlinked /\ Len(g.arena) >= new) THEN Panic(g)
    ELSE IF ~InArena(g, endlinked) THEN Panic(g)
    ELSE IF ~NodeAt(g, endlinked).endlinked THEN Panic(g)
    ELSE [g EXCEPT !.arena[endlinked + 1] =
                      [edges |-> Append(@.edges, <<new, cost>>),
                       endlinked |-> FALSE]]

\* a variant that links the new node from the start node instead of the active one
add_cost_from_start(g, cost) ==
    IF g.panicked THEN g
    ELSE LET g1 == add_node(g, Node_new(<<>>))
             new_active_node_index == Len(g1.arena) - 1
             g2 == bump_endlinked(g1, g1.start, new_active_node_index, Some(cost))
         IN  set_active(g2, new_active_node_index)

add_cost(g, cost) ==
    IF g.panicked THEN g
    ELSE LET g1 == add_node(g, Node_new(<<>>))
             new_active_node_index == Len(g1.arena) - 1
             g2 == bump_endlinked(g1, g1.active, new_active_node_index, Some(cost))
         IN  set_active(g2, new_active_node_index)

add_junction(g, start) ==
    IF g.panicked THEN g
    ELSE IF ~(start < Len(g.arena)) THEN Panic(g)
    ELSE set_active(g, start)

\* the handles start..len-1 whose node is open-marked, in increasing order
dangling_nodes(g, start) ==
    LET n == IF Len(g.arena) > start THEN Len(g.arena) - start ELSE 0
        range == [k \in 1..n |-> start + k - 1]
    IN  SelectSeq(range, LAMBDA i : NodeAt(g, i).endlinked)

RECURSIVE bump_all(_, _, _)
bump_all(g, nodes, new) ==
    IF nodes = <<>> THEN g
    ELSE bump_all(bump_endlinked(g, Head(nodes), new, None), Tail(nodes), new)

\* a variant of close_junction that leaves the active handle where it was
close_junction_keeps_active(g, start) ==
    IF g.panicked THEN g
    ELSE LET dangling == dangling_nodes(g, start)
         IN  IF Len(dangling) = 0 THEN g
             ELSE LET g1 == add_node(g, Node_new(<<>>))
                      new_active_node_index == Len(g1.arena) - 1
                  IN  bump_all(g1, dangling, new_active_node_index)

close_junction(g, start) ==
    IF g.panicked THEN g
    ELSE LET dangling == dangling_nodes(g, start)
         IN  IF Len(dangling) = 0 THEN g
             ELSE LET g1 == add_node(g, Node_new(<<>>))
                      new_active_node_index == Len(g1.arena) - 1
                      g2 == bump_all(g1, dangling, new_active_node_index)
                  IN  set_active(g2, new_active_node_index)

zero_or_one(g, start) == close_junction(add_junction(g, start), start)

\* a variant that draws the loop edge the wrong way round, start -> active
one_or_more_reversed(g, start) ==
    IF g.panicked THEN g
    ELSE IF ~InArena(g, start) THEN Panic(g)
    ELSE [g EXCEPT !.arena[start + 1].edges = Append(@, <<g.active, None>>)]

one_or_more(g, start) ==
    IF g.panicked THEN g
    ELSE IF ~InArena(g, g.active) THEN Panic(g)
    ELSE [g EXCEPT !.arena[g.active + 1].edges = Append(@, <<start, None>>)]

zero_or_more(g, start) ==
    IF g.panicked THEN g
    ELSE IF ~InArena(g, g.active) THEN Panic(g)
    ELSE add_junction(
             [g EXCEPT !.arena[g.active + 1].edges = Append(@, <<start, None>>)],
             start)

----------------------------------------------------------------------------
(* parser.rs: the CharClass value type, chars and half-open ranges.        *)

CharClass_new == [chars |-> <<>>, ranges |-> <<>>]
\* a variant of plus_literal that records nothing
plus_literal_dropped(class, new_char) == class
plus_literal(class, new_char) == [class EXCEPT !.chars = Append(@, new_char)]
plus_range(class, start_char, end_char) ==
    [class EXCEPT !.ranges = Append(@, <<start_char, end_char>>)]

----------------------------------------------------------------------------
(* Direct use of the builder: any sequence of calls with in-range handles. *)

Handles(g) == 0..(Len(g.arena) - 1)

Apply(g, op) ==
    CASE op[1] = "add_cost"       -> add_cost(g, op[2])
      [] op[1] = "add_junction"   -> add_junction(g, op[2])
      [] op[1] = "close_junction" -> close_junction(g, op[2])
      [] op[1] = "zero_or_one"    -> zero_or_one(g, op[2])
      [] op[1] = "one_or_more"    -> one_or_more(g, op[2])
      [] op[1] = "zero_or_more"   -> zero_or_more(g, op[2])

RECURSIVE Run(_)
Run(calls) ==
    IF calls = <<>> THEN Graph_new
    ELSE Apply(Run(SubSeq(calls, 1, Len(calls) - 1)), calls[Len(calls)])

CanCall == pc = "api" /\ ~graph.panicked /\ Len(ops) < MaxOps

Call(op) ==
    /\ graph' = Apply(graph, op)
    /\ ops' = Append(ops, op)
    /\ UNCHANGED <<regex, chars, lex_string, in_class, lex_result,
                   next_lexeme, group_starts, state, pc, result, char_class>>

CallAddCost == CanCall /\ \E cost \in Labels : Call(<<"add_cost", cost>>)
CallAddJunction == CanCall /\ \E s \in Handles(graph) : Call(<<"add_junction", s>>)
CallCloseJunction == CanCall /\ \E s \in Handles(graph) : Call(<<"close_junction", s>>)
CallZeroOrOne == CanCall /\ \E s \in Handles(graph) : Call(<<"zero_or_one", s>>)
CallOneOrMore == CanCall /\ \E s \in Handles(graph) : Call(<<"one_or_more", s>>)
CallZeroOrMore == CanCall /\ \E s \in Handles(graph) : Call(<<"zero_or_more", s>>)


InitIdle ==
    /\ graph = Graph_new
    /\ ops = <<>>
    /\ chars = 0
    /\ lex_string = <<>>
    /\ in_class = FALSE
    /\ lex_result = "pending"
    /\ next_lexeme = 0
    /\ group_starts = <<>>
    /\ state = <<"OutOfClassWithoutQual">>
    /\ result = "pending"
    /\ char_class = CharClass_new

Init == InitIdle /\ regex = <<>> /\ pc = "api"

Next ==
    \/ CallAddCost
    \/ CallAddJunction
    \/ CallCloseJunction
    \/ CallZeroOrOne
    \/ CallOneOrMore
    \/ CallZeroOrMore

Spec == Init /\ [][Next]_vars

----------------------------------------------------------------------------
(* parser.rs: lexemes, character classes and the lexer.  A Lexeme is a     *)
(* tuple <<kind>>, <<kind, char>> or <<"Range", start, end>>; a CharCost   *)
(* is <<"Singleton", char>>, <<"Dot">> or <<"Class", CharClass>>.          *)

match_char(character) ==
    CASE character = "(" -> <<"OpenParen">>
      [] character = ")" -> <<"CloseParen">>
      [] character = "[" -> <<"OpenBracket">>
      [] character = "]" -> <<"CloseBracket">>
      [] character = "*" -> <<"Star">>
      [] character = "?" -> <<"Question">>
      [] character = "+" -> <<"Plus">>
      [] character = "." -> <<"Dot">>
      [] character = "|" -> <<"Bar">>
      [] OTHER           -> <<"Literal", character>>

lexeme_to_char(lexeme) ==
    CASE lexeme[1] = "Bar"          -> "|"
      [] lexeme[1] = "Builtin"      -> lexeme[2]
      [] lexeme[1] = "CloseBracket" -> "]"
      [] lexeme[1] = "CloseParen"   -> ")"
      [] lexeme[1] = "Dot"          -> "."
      [] lexeme[1] = "Literal"      -> lexeme[2]
      [] lexeme[1] = "OpenBracket"  -> "["
      [] lexeme[1] = "OpenParen"    -> "("
      [] lexeme[1] = "Plus"         -> "+"
      [] lexeme[1] = "Question"     -> "?"
      [] lexeme[1] = "Star"         -> "*"
      [] lexeme[1] = "Range"        -> "-"

fromchar(singleton) == <<"Singleton", singleton>>

LexState(consumed, lexemes, inside, failed) ==
    [chars |-> consumed, lex_string |-> lexemes, in_class |-> inside, err |-> failed]

\* a variant of the `-` branch that does not reject a `-` after a range
lexer_range_after_range(re, consumed, lexemes, inside) ==
    IF lexemes = <<>> THEN LexState(consumed, lexemes, inside, TRUE)
    ELSE LET last == lexemes[Len(lexemes)]
             popped == SubSeq(lexemes, 1, Len(lexemes) - 1)
         IN  IF last[1] = "OpenBracket"
                 THEN LexState(consumed, popped, inside, TRUE)
             ELSE IF consumed >= Len(re)
                 THEN LexState(consumed, popped, inside, TRUE)
             ELSE IF re[consumed + 1] = "]"
                 THEN LexState(consumed + 1, popped, inside, TRUE)
             ELSE LexState(consumed + 1,
                           Append(popped, <<"Range", lexeme_to_char(last), re[consumed + 1]>>),
                           inside, FALSE)

\* the `-` branch of the loop body, inside a class (lines 104-122)
lexer_range(re, consumed, lexemes, inside) ==
    IF lexemes = <<>> THEN LexState(consumed, lexemes, inside, TRUE)
    ELSE LET last == lexemes[Len(lexemes)]
             popped == SubSeq(lexemes, 1, Len(lexemes) - 1)
         IN  IF last[1] = "OpenBracket" \/ last[1] = "Range"
                 THEN LexState(consumed, popped, inside, TRUE)
             ELSE IF consumed >= Len(re)
                 THEN LexState(consumed, popped, inside, TRUE)
             ELSE IF re[consumed + 1] = "]"
                 THEN LexState(consumed + 1, popped, inside, TRUE)
             ELSE LexState(consumed + 1,
                           Append(popped, <<"Range", lexeme_to_char(last), re[consumed + 1]>>),
                           inside, FALSE)

\* a variant of the `\` branch with the two outcomes exchanged
lexer_escape_exchanged(re, consumed, lexemes, inside) ==
    IF consumed < Len(re)
        THEN LET next == re[consumed + 1]
             IN  IF match_char(next)[1] = "Literal"
                     THEN LexState(consumed + 1, Append(lexemes, <<"Literal", next>>),
                                   inside, FALSE)
                     ELSE LexState(consumed + 1, Append(lexemes, <<"Builtin", next>>),
                                   inside, FALSE)
        ELSE LexState(consumed, lexemes, inside, FALSE)

\* the `\` branch of the loop body, outside a class (lines 127-138)
lexer_escape(re, consumed, lexemes, inside) ==
    IF consumed < Len(re)
        THEN LET next == re[consumed + 1]
             IN  IF match_char(next)[1] = "Literal"
                     THEN LexState(consumed + 1, Append(lexemes, <<"Builtin", next>>),
                                   inside, FALSE)
                     ELSE LexState(consumed + 1, Append(lexemes, <<"Literal", next>>),
                                   inside, FALSE)
        ELSE LexState(consumed, lexemes, inside, FALSE)

\* one iteration of `while let Some(character) = chars.next()`, the iterator
\* having consumed `consumed` characters before it
lexer_iteration(re, consumed, lexemes, inside) ==
    LET character == re[consumed + 1]
        after == consumed + 1
    IN  IF inside /\ character # "]" /\ character # "-"
            THEN LexState(after, Append(lexemes, <<"Literal", character>>), inside, FALSE)
        ELSE IF inside /\ character = "-"
            THEN lexer_range(re, after, lexemes, inside)
        ELSE IF inside /\ character = "]"
            THEN LexState(after, Append(lexemes, match_char(character)), FALSE, FALSE)
        ELSE IF character = "["
            THEN LexState(after, Append(lexemes, match_char(character)), TRUE, FALSE)
        ELSE IF character = "\\"
            THEN lexer_escape(re, after, lexemes, inside)
        ELSE LexState(after, Append(lexemes, match_char(character)), inside, FALSE)

LexerStep ==
    /\ pc = "lexer"
    /\ chars < Len(regex)
    /\ LET l == lexer_iteration(regex, chars, lex_string, in_class)
       IN  /\ chars' = l.chars
           /\ lex_string' = l.lex_string
           /\ in_class' = l.in_class
           /\ lex_result' = IF l.err THEN "Err" ELSE lex_result
           /\ result' = IF l.err THEN "Err" ELSE result
           /\ pc' = IF l.err THEN "done" ELSE pc
    /\ UNCHANGED <<graph, ops, regex, next_lexeme, group_starts, state, char_class>>

\* the iterator is exhausted: Ok(lex_string), and parser() starts its loop
LexerReturn ==
    /\ pc = "lexer"
    /\ chars = Len(regex)
    /\ lex_result' = "Ok"
    /\ pc' = "parser"
    /\ UNCHANGED <<graph, ops, regex, chars, lex_string, in_class,
                   next_lexeme, group_starts, state, result, char_class>>

----------------------------------------------------------------------------
(* parser.rs: the parser.  ParserState is <<"OutOfClassWithoutQual">>,     *)
(* <<"InClass", NodeIndex, CharClass>> or <<"QualWithoutClass", NodeIndex>>.*)

ParseState(stack, st, g, calls, failed) ==
    [group_starts |-> stack, state |-> st, graph |-> g, calls |-> calls, err |-> failed]

OutOfClassWithoutQual == <<"OutOfClassWithoutQual">>
InClass(anchor, class) == <<"InClass", anchor, class>>
QualWithoutClass(start) == <<"QualWithoutClass", start>>

\* a variant that opens the new alternative at the active node
junction_start_active(stack, g) == g.active

\* *group_starts.last().unwrap_or(&0)
junction_start(stack, g) == IF stack = <<>> THEN 0 ELSE stack[Len(stack)]

\* one iteration of `for lexeme in lex_string`: the match arms in source order
parser_arm(lexeme, stack, st, g) ==
    LET kind == lexeme[1]
        out == st[1] \in {"OutOfClassWithoutQual", "QualWithoutClass"}
        call(c) == ParseState(stack, st, Apply(g, c), <<c>>, FALSE)
        error == ParseState(stack, st, g, <<>>, TRUE)
    IN  CASE kind = "Bar" /\ out ->
                 call(<<"add_junction", junction_start(stack, g)>>)
          [] kind = "OpenParen" /\ out ->
                 ParseState(Append(stack, g.active), st, g, <<>>, FALSE)
          [] kind = "OpenBracket" /\ out ->
                 ParseState(stack, InClass(g.active, CharClass_new), g, <<>>, FALSE)
          [] kind = "CloseParen" /\ out ->
                 IF stack # <<>>
                     THEN LET start == stack[Len(stack)]
                          IN  ParseState(SubSeq(stack, 1, Len(stack) - 1),
                                         QualWithoutClass(start),
                                         close_junction(g, start),
                                         <<<<"close_junction", start>>>>, FALSE)
                     ELSE error
          [] kind = "Literal" /\ out ->
                 LET g1 == add_cost(g, fromchar(lexeme[2]))
                 IN  ParseState(stack, QualWithoutClass(g1.active), g1,
                                <<<<"add_cost", fromchar(lexeme[2])>>>>, FALSE)
          [] kind = "Dot" /\ out ->
                 LET g1 == add_cost(g, <<"Dot">>)
                 IN  ParseState(stack, QualWithoutClass(g1.active), g1,
                                <<<<"add_cost", <<"Dot">>>>>>, FALSE)
          [] kind = "Builtin" /\ out ->
                 ParseState(stack, st, g, <<>>, FALSE)
          [] st[1] = "OutOfClassWithoutQual" -> error
          [] kind = "CloseBracket" /\ st[1] = "InClass" ->
                 ParseState(stack, OutOfClassWithoutQual,
                            add_cost(g, <<"Class", st[3]>>),
                            <<<<"add_cost", <<"Class", st[3]>>>>>>, FALSE)
          [] kind = "Literal" /\ st[1] = "InClass" ->
                 ParseState(stack, InClass(st[2], plus_literal(st[3], lexeme[2])),
                            g, <<>>, FALSE)
          [] kind = "Range" /\ st[1] = "InClass" ->
                 ParseState(stack,
                            InClass(st[2], plus_literal(plus_range(st[3], lexeme[2], lexeme[3]),
                                                        lexeme[3])),
                            g, <<>>, FALSE)
          [] st[1] = "InClass" -> error
          [] kind = "Plus" /\ st[1] = "QualWithoutClass" ->
                 ParseState(stack, OutOfClassWithoutQual, one_or_more(g, st[2]),
                            <<<<"one_or_more", st[2]>>>>, FALSE)
          [] kind = "Question" /\ st[1] = "QualWithoutClass" ->
                 ParseState(stack, OutOfClassWithoutQual, zero_or_one(g, st[2]),
                            <<<<"zero_or_one", st[2]>>>>, FALSE)
          [] kind = "Star" /\ st[1] = "QualWithoutClass" ->
                 ParseState(stack, OutOfClassWithoutQual, zero_or_more(g, st[2]),
                            <<<<"zero_or_more", st[2]>>>>, FALSE)
          [] OTHER -> error

ParserStep ==
    /\ pc = "parser"
    /\ next_lexeme < Len(lex_string)
    /\ LET p == parser_arm(lex_string[next_lexeme + 1], group_starts, state, graph)
           stopped == p.err \/ p.graph.panicked
       IN  /\ group_starts' = p.group_starts
           /\ state' = p.state
           /\ graph' = p.graph
           /\ ops' = ops \o p.calls
           /\ next_lexeme' = IF stopped THEN next_lexeme ELSE next_lexeme + 1
           /\ result' = IF p.graph.panicked THEN "Panic"
                        ELSE IF p.err THEN "Err" ELSE result
           /\ pc' = IF stopped THEN "done" ELSE pc
    /\ UNCHANGED <<regex, chars, lex_string, in_class, lex_result, char_class>>

\* the token stream is exhausted: Ok(graph)
ParserReturn ==
    /\ pc = "parser"
    /\ next_lexeme = Len(lex_string)
    /\ result' = "Ok"
    /\ pc' = "done"
    /\ UNCHANGED <<graph, ops, regex, chars, lex_string, in_class, lex_result,
                   next_lexeme, group_starts, state, char_class>>

NextCompile ==
    \/ LexerStep
    \/ LexerReturn
    \/ ParserStep
    \/ ParserReturn

----------------------------------------------------------------------------
(* Inputs of parser(): every pattern over the pattern alphabet.            *)

MaxPatLen == 4
Alphabet == {"a", "b", "(", ")", "[", "]", "*", "?", "+", ".", "|", "\\", "-"}
Patterns == UNION {[1..n -> Alphabet] : n \in 0..MaxPatLen}

InitCompile == InitIdle /\ pc = "lexer" /\ regex \in Patterns

SpecCompile == InitCompile /\ [][NextCompile]_vars

----------------------------------------------------------------------------
(* What an automaton accepts (spec sections 3 and 4.5): an unlabeled edge  *)
(* is always traversable and consumes nothing, a labeled edge consumes one *)
(* character its label accepts.                                            *)

\* the code points of the characters the model uses
CharCode(c) ==
    CASE c = "(" -> 40 [] c = ")" -> 41 [] c = "*" -> 42 [] c = "+" -> 43
      [] c = "-" -> 45 [] c = "." -> 46 [] c = "?" -> 63 [] c = "[" -> 91
      [] c = "\\" -> 92 [] c = "]" -> 93 [] c = "a" -> 97 [] c = "b" -> 98
      [] c = "c" -> 99 [] c = "|" -> 124

\* Range<char>::contains: start <= x < end
Range_contains(r, letter) ==
    CharCode(r[1]) <= CharCode(letter) /\ CharCode(letter) < CharCode(r[2])

is_in(class, letter) ==
    \/ \E i \in 1..Len(class.chars) : class.chars[i] = letter
    \/ \E i \in 1..Len(class.ranges) : Range_contains(class.ranges[i], letter)

LabelAccepts(cost, ch) ==
    CASE cost[1] = "Singleton" -> cost[2] = ch
      [] cost[1] = "Dot"       -> TRUE
      [] cost[1] = "Class"     -> is_in(cost[2], ch)

EdgesOf(g, i) == {NodeAt(g, i).edges[k] : k \in 1..Len(NodeAt(g, i).edges)}

RECURSIVE EpsClosure(_, _)
EpsClosure(g, S) ==
    LET T == S \cup {e[1] : e \in {x \in UNION {EdgesOf(g, i) : i \in S} :
                                      x[2] = None /\ InArena(g, x[1])}}
    IN  IF T = S THEN S ELSE EpsClosure(g, T)

StepOn(g, S, ch) ==
    {e[1] : e \in {x \in UNION {EdgesOf(g, i) : i \in S} :
                      x[2] # None /\ InArena(g, x[1]) /\ LabelAccepts(x[2][2], ch)}}

\* the strings of up to n characters that lead from the (epsilon-closed) set S
\* of nodes to node `to`
RECURSIVE LangFrom(_, _, _, _)
LangFrom(g, S, to, n) ==
    (IF to \in S THEN {<<>>} ELSE {})
    \cup (IF n = 0 \/ S = {} THEN {}
          ELSE UNION {{<<ch>> \o w :
                         w \in LangFrom(g, EpsClosure(g, StepOn(g, S, ch)), to, n - 1)} :
                      ch \in SubjectChars})

Lang(g, from, to) == LangFrom(g, EpsClosure(g, {from}), to, MaxStr)

Concat(X, Y) == {w \in {u \o v : u \in X, v \in Y} : Len(w) <= MaxStr}

RECURSIVE PlusFrom(_, _)
PlusFrom(X, acc) ==
    LET more == acc \cup Concat(acc, X)
    IN  IF more = acc THEN acc ELSE PlusFrom(X, more)

\* X, XX, XXX, ... and the same with the empty string, up to MaxStr characters
PlusLang(X) == PlusFrom(X, X)
StarLang(X) == PlusLang(X) \cup {<<>>}

----------------------------------------------------------------------------
(* The builder claims, over the calls issued so far.                       *)

NumOps == Len(ops)
LastOp == ops[NumOps]
GraphAfter(j) == Run(SubSeq(ops, 1, j))
Before == GraphAfter(NumOps - 1)

OnlyAddCost == \A i \in 1..NumOps : ops[i][1] = "add_cost"

\* the edges <<from, to, label>> of the whole arena
AllEdges(g) ==
    UNION {{<<i, e[1], e[2]>> : e \in EdgesOf(g, i)} : i \in Handles(g)}

\* the number of edges into node t, counted with multiplicity
RECURSIVE CountInto(_, _, _)
CountInto(g, t, i) ==
    IF i >= Len(g.arena) THEN 0
    ELSE Cardinality({k \in 1..Len(NodeAt(g, i).edges) : NodeAt(g, i).edges[k][1] = t})
         + CountInto(g, t, i + 1)

Inbound(g, t) == {e \in AllEdges(g) : e[2] = t}
OpenNodes(g) == {i \in Handles(g) : NodeAt(g, i).endlinked}

\* C1: from a fresh graph, n consecutive add_cost calls with labels l1..ln
\* leave n+1 nodes; node k's only inbound edge comes from node k-1 and
\* carries lk; node n has no outgoing edge, is active, and is the only
\* open-marked node.
C1_ConcatenateChain ==
    (pc = "api" /\ OnlyAddCost) =>
        /\ Len(graph.arena) = NumOps + 1
        /\ \A k \in 1..NumOps :
              /\ CountInto(graph, k, 0) = 1
              /\ Inbound(graph, k) = {<<k - 1, k, Some(ops[k][2])>>}
        /\ NodeAt(graph, NumOps).edges = <<>>
        /\ graph.active = NumOps
        /\ OpenNodes(graph) = {NumOps}
        /\ ~graph.panicked

C1_Witness ==
    /\ pc = "api" /\ OnlyAddCost /\ NumOps = MaxOps
    /\ ops[1][2] # ops[2][2]
    /\ Inbound(graph, 2) = {<<1, 2, Some(ops[2][2])>>}

\* An atom built from `at`: after j calls `at` was the active node and the
\* newest node, and the calls since (the last one apart) are concatenations
\* and quantifiers, each quantifier on a handle observed as active since.
AtomBuiltFrom(at, j) ==
    /\ GraphAfter(j).active = at
    /\ at = Len(GraphAfter(j).arena) - 1
    /\ \A i \in (j + 1)..(NumOps - 1) :
          \/ ops[i][1] = "add_cost"
          \/ /\ ops[i][1] \in {"zero_or_one", "one_or_more", "zero_or_more"}
             /\ ops[i][2] \in {GraphAfter(k).active : k \in j..(i - 1)}

\* C4: one_or_more(at) leaves the active node unchanged, and the automaton
\* entered at `at` and accepting at the active node then accepts exactly the
\* strings X, XX, XXX, ... of the atom X it accepted before (every string of
\* up to MaxStr characters is tried); the empty string only if X has it.
C4_RepeatableIsPlus ==
    (pc = "api" /\ NumOps >= 1 /\ LastOp[1] = "one_or_more") =>
        LET at == LastOp[2]
            X == Lang(Before, at, Before.active)
        IN  /\ graph.active = Before.active
            /\ ~graph.panicked
            /\ Lang(graph, at, graph.active) = PlusLang(X)
            /\ (<<>> \in Lang(graph, at, graph.active) <=> <<>> \in X)

C4_Witness ==
    /\ pc = "api" /\ NumOps >= 3 /\ LastOp = <<"one_or_more", 0>>
    /\ AtomBuiltFrom(0, 0)
    /\ Lang(Before, 0, Before.active) = {<<"a", "b">>}
    /\ <<"a", "b", "a", "b">> \in Lang(graph, 0, graph.active)
    /\ <<>> \notin Lang(graph, 0, graph.active)

\* the calls after the j-th and before the last build branches from s:
\* add_cost calls, separated by add_junction(s)
BranchCalls(s, j) ==
    \A i \in (j + 1)..(NumOps - 1) :
        ops[i][1] = "add_cost" \/ ops[i] = <<"add_junction", s>>

\* the positions at which a branch ends: before each add_junction(s), and
\* before the closing call
BranchEnds(j) ==
    {i - 1 : i \in {k \in (j + 1)..(NumOps - 1) : ops[k][1] = "add_junction"}}
    \cup {NumOps - 1}

\* C2: s is the active node; m branches are built from s, each of any
\* length >= 0, separated by add_junction(s); then close_junction(s)
\* allocates exactly one node, the merge node, which has exactly m incoming
\* epsilon edges, one from the open end of each branch, and is active.
C2_CloseJoinsEveryBranch ==
    (pc = "api" /\ NumOps >= 1 /\ LastOp[1] = "close_junction") =>
        \A j \in 0..(NumOps - 1) :
            LET s == LastOp[2]
                m == 1 + Cardinality({k \in (j + 1)..(NumOps - 1) :
                                         ops[k][1] = "add_junction"})
                merge == Len(Before.arena)
            IN  (GraphAfter(j).active = s /\ BranchCalls(s, j)) =>
                    /\ Len(graph.arena) = Len(Before.arena) + 1
                    /\ graph.active = merge
                    /\ CountInto(graph, merge, 0) = m
                    /\ Inbound(graph, merge) =
                           {<<GraphAfter(i).active, merge, None>> : i \in BranchEnds(j)}

\* C3: for an atom X built from `at` up to the active node, zero_or_one(at)
\* gives an automaton that, entered at `at` and accepting at the new active
\* node, accepts exactly the empty string and the strings of X (every string
\* of up to MaxStr characters is tried).
C3_OptionalIsEpsilonOrX ==
    (pc = "api" /\ NumOps >= 1 /\ LastOp[1] = "zero_or_one") =>
        \A j \in 0..(NumOps - 1) :
            LET at == LastOp[2]
            IN  AtomBuiltFrom(at, j) =>
                    Lang(graph, at, graph.active)
                        = {<<>>} \cup Lang(Before, at, Before.active)

\* C5: for an atom X built from `at` up to the active node, zero_or_more(at)
\* makes `at` the active node, and the automaton entered at `at` and
\* accepting there accepts exactly the empty string, X, XX, ...; a path then
\* concatenated onto the active node is reached after any number of
\* occurrences of X, zero included, and not otherwise.
C5_OptionalRepeatableIsStar ==
    (pc = "api" /\ NumOps >= 1 /\ LastOp[1] = "zero_or_more") =>
        \A j \in 0..(NumOps - 1) :
            LET at == LastOp[2]
                X == Lang(Before, at, Before.active)
            IN  AtomBuiltFrom(at, j) =>
                    /\ graph.active = at
                    /\ Lang(graph, at, at) = StarLang(X)
                    /\ \A cost \in Labels :
                          LET g2 == add_cost(graph, cost)
                          IN  Lang(g2, at, g2.active)
                                  = Concat(StarLang(X), {<<cost[2]>>})

----------------------------------------------------------------------------
(* Inputs of the form (b1|b2|...|bm)+ : each branch is a non-empty run of  *)
(* literals or one bracket class of literals.                              *)

MaxBranches == 3
BranchBodies ==
    {<<"lits", <<"a">>>>, <<"lits", <<"b">>>>, <<"lits", <<"a", "b">>>>,
     <<"class", <<"b">>>>, <<"class", <<"a", "b">>>>}
GroupShapes == UNION {[1..m -> BranchBodies] : m \in 1..MaxBranches}

RenderBranch(b) == IF b[1] = "class" THEN <<"[">> \o b[2] \o <<"]">> ELSE b[2]

RECURSIVE RenderBranches(_)
RenderBranches(shape) ==
    IF Len(shape) = 1 THEN RenderBranch(shape[1])
    ELSE RenderBranches(SubSeq(shape, 1, Len(shape) - 1))
             \o <<"|">> \o RenderBranch(shape[Len(shape)])

RenderGroup(shape) == <<"(">> \o RenderBranches(shape) \o <<")", "+">>

\* the concatenations of one branch, as direct builder calls
BranchCallsOf(b) ==
    IF b[1] = "class"
        THEN <<<<"add_cost", <<"Class", [chars |-> b[2], ranges |-> <<>>]>>>>>>
        ELSE [i \in 1..Len(b[2]) |-> <<"add_cost", <<"Singleton", b[2][i]>>>>]

RECURSIVE DirectBranches(_)
DirectBranches(shape) ==
    IF Len(shape) = 1 THEN BranchCallsOf(shape[1])
    ELSE DirectBranches(SubSeq(shape, 1, Len(shape) - 1))
             \o <<<<"add_junction", 0>>>> \o BranchCallsOf(shape[Len(shape)])

DirectCalls(shape) ==
    DirectBranches(shape) \o <<<<"close_junction", 0>>, <<"one_or_more", 0>>>>

InitGroup == InitIdle /\ pc = "lexer" /\ regex \in {RenderGroup(sh) : sh \in GroupShapes}

SpecGroup == InitGroup /\ [][NextCompile]_vars

\* the label of the first concatenation of a branch
FirstLabel(b) == Some(BranchCallsOf(b)[1][2])

\* C6: parsing (b1|...|bm)+ gives the very graph the direct calls give
\* (the concatenations of b1, then per further branch add_junction(0) and
\* its concatenations, then close_junction(0) and one_or_more(0)): same
\* nodes, edges in the same order, open markers and active node.  Node 0 has
\* the m labeled edges of the branches' first labels, in branch order, and
\* the last node, the merge node, has one edge, an epsilon edge to node 0.
C6_GroupPlusIsDirectBuild ==
    pc = "done" =>
        \A shape \in GroupShapes :
            regex = RenderGroup(shape) =>
                LET last == Len(graph.arena) - 1
                IN  /\ result = "Ok"
                    /\ graph = Run(DirectCalls(shape))
                    /\ ~graph.panicked
                    /\ Len(NodeAt(graph, 0).edges) = Len(shape)
                    /\ \A i \in 1..Len(shape) :
                          NodeAt(graph, 0).edges[i][2] = FirstLabel(shape[i])
                    /\ graph.active = last
                    /\ NodeAt(graph, last).edges = <<<<0, None>>>>

C6_Witness ==
    /\ pc = "done" /\ result = "Ok"
    /\ regex = RenderGroup(<<<<"class", <<"a", "b">>>>, <<"lits", <<"a", "b">>>>, <<"lits", <<"b">>>>>>)
    /\ Len(graph.arena) = 6
    /\ NodeAt(graph, 5).edges = <<<<0, None>>>>
    /\ Len(NodeAt(graph, 0).edges) = 3

----------------------------------------------------------------------------
(* The pattern text read as spec section 4.1 reads it: the role of every   *)
(* character, from position i on.  Outside a class a backslash escapes the *)
(* next character and `[` opens a class; inside, `]` closes it, `-` is a   *)
(* range marker and takes the next character as the end of its range.      *)

RECURSIVE Roles(_, _, _)
Roles(re, i, inside) ==
    IF i > Len(re) THEN <<>>
    ELSE IF inside
        THEN IF re[i] = "]" THEN <<"close">> \o Roles(re, i + 1, FALSE)
             ELSE IF re[i] = "-"
                 THEN IF i = Len(re) THEN <<"dash">>
                      ELSE <<"dash", "end">> \o Roles(re, i + 2, TRUE)
             ELSE <<"member">> \o Roles(re, i + 1, TRUE)
        ELSE IF re[i] = "\\"
                 THEN IF i = Len(re) THEN <<"dangling">>
                      ELSE <<"escape", "escaped">> \o Roles(re, i + 2, FALSE)
             ELSE IF re[i] = "[" THEN <<"open">> \o Roles(re, i + 1, TRUE)
             ELSE <<"plain">> \o Roles(re, i + 1, FALSE)

RoleAt(re, i) == Roles(re, 1, FALSE)[i]

\* the `-` at position i is the first character of its class, directly
\* follows a completed range, is the last character of the input, or is
\* immediately followed by `]`
MisplacedDash(re, i) ==
    /\ re[i] = "-"
    /\ \/ RoleAt(re, i - 1) = "open"
       \/ RoleAt(re, i - 1) = "end"
       \/ i = Len(re)
       \/ re[i + 1] = "]"

InsideClass(re, i) == RoleAt(re, i) \in {"member", "dash", "end"}

DanglingEscape(re) == re # <<>> /\ RoleAt(re, Len(re)) = "dangling"

\* a quantifier lexeme with no operand: first lexeme, or directly after
\* `(`, `|` or another quantifier
Quantifiers == {"Star", "Plus", "Question"}
BareQuantifierAt(i) ==
    /\ lex_string[i][1] \in Quantifiers
    /\ \/ i = 1
       \/ lex_string[i - 1][1] \in {"OpenParen", "Bar"} \cup Quantifiers

\* C7: a pattern that ends with a group still open (the group-start stack is
\* not empty when the lexemes are exhausted) gives a syntax error, never an
\* automaton.
C7_UnclosedGroupIsError ==
    (pc = "done" /\ group_starts # <<>>) => result = "Err"

\* C8: a quantifier lexeme with no operand (at the start of the pattern,
\* directly after `(`, `|` or another quantifier) gives a syntax error, and
\* the parser does not get past it, so it adds no edge.
C8_BareQuantifierIsError ==
    (pc = "done" /\ lex_result = "Ok") =>
        \A i \in 1..Len(lex_string) :
            BareQuantifierAt(i) => (result = "Err" /\ next_lexeme < i)

\* C10: a pattern whose last character is an unescaped backslash gives a
\* lexical error from the lexer, hence an error from parser().
C10_DanglingEscapeIsError ==
    (pc = "done" /\ DanglingEscape(regex)) =>
        (lex_result = "Err" /\ result = "Err")

----------------------------------------------------------------------------
(* Inputs of the lexer's class handling: every pattern over brackets, `-`, *)
(* backslash and one literal.                                              *)

MaxLexLen == 6
LexAlphabet == {"a", "-", "[", "]", "\\"}
LexPatterns == UNION {[1..n -> LexAlphabet] : n \in 0..MaxLexLen}

InitLexer == InitIdle /\ pc = "lexer" /\ regex \in LexPatterns

SpecLexer == InitLexer /\ [][NextCompile]_vars

\* C9 as stated: inside a bracket class, any `-` that is the first character
\* of the class, directly follows a completed range, is the last character
\* of the input or is immediately followed by `]` makes the lexer return a
\* lexical error (no token list, no panic).
C9_AnyMisplacedDashIsError ==
    pc = "done" =>
        \A i \in 1..Len(regex) :
            (InsideClass(regex, i) /\ MisplacedDash(regex, i)) =>
                (lex_result = "Err" /\ result = "Err")

\* C9, amended: the same for every `-` that the lexer reads as a range
\* marker, that is, every `-` inside a class that is not itself the end
\* character of a range.
C9_MisplacedRangeMarkerIsError ==
    pc = "done" =>
        \A i \in 1..Len(regex) :
            (RoleAt(regex, i) = "dash" /\ MisplacedDash(regex, i)) =>
                (lex_result = "Err" /\ result = "Err")

C9_Witness ==
    /\ pc = "done"
    /\ regex = <<"[", "a", "-", "a", "-", "a">>
    /\ lex_result = "Err"
    /\ chars = 5

----------------------------------------------------------------------------
(* Further properties of parser() over every pattern (SpecCompile).        *)

\* the pattern ends inside a bracket class: a `[` was opened and no `]`
\* closed it
EndsInsideClass(re) ==
    re # <<>> /\ RoleAt(re, Len(re)) \in {"open", "member", "dash", "end"}

\* C11: a pattern that ends while still inside a bracket class (a `[` with
\* no closing `]`) gives an error from parser(); no automaton is returned.
C11_UnclosedClassIsError ==
    (pc = "done" /\ EndsInsideClass(regex)) => result = "Err"

----------------------------------------------------------------------------
(* Inputs that exercise groups, alternation and quantifiers: every pattern *)
(* over one literal, the parentheses, `|` and the three quantifiers.       *)

MaxNestLen == 5
NestAlphabet == {"a", "(", ")", "|", "*", "?", "+"}
NestPatterns == UNION {[1..n -> NestAlphabet] : n \in 0..MaxNestLen}

InitNest == InitIdle /\ pc = "lexer" /\ regex \in NestPatterns

SpecNest == InitNest /\ [][NextCompile]_vars

\* C12: for every pattern, parser() ends with an automaton or an error
\* value: no builder call the parser issues trips an assert!, an unwrap or
\* an index bound of graph.rs, and until it has returned the lexer and the
\* parser stand at a position inside their input, which every step advances.
C12_CompileNeverPanics ==
    /\ ~graph.panicked
    /\ result # "Panic"
    /\ pc = "done" => result \in {"Ok", "Err"}
    /\ pc # "done" => result = "pending"
    /\ pc = "lexer" => chars <= Len(regex)
    /\ pc = "parser" => lex_result = "Ok" /\ next_lexeme <= Len(lex_string)

C12_Witness ==
    /\ pc = "done" /\ result = "Ok"
    /\ regex = <<"a", "|", "*", "a">>
    /\ ops = <<<<"add_cost", <<"Singleton", "a">>>>, <<"add_junction", 0>>,
               <<"zero_or_more", 1>>, <<"add_cost", <<"Singleton", "a">>>>>>

----------------------------------------------------------------------------
(* A bracket class followed at once by a quantifier.                        *)

QuantifierCall(lexeme) ==
    CASE lexeme[1] = "Plus"     -> "one_or_more"
      [] lexeme[1] = "Question" -> "zero_or_one"
      [] lexeme[1] = "Star"     -> "zero_or_more"
      [] OTHER                  -> "none"

ClassThenQuantifier(tokens) ==
    /\ Len(tokens) >= 3
    /\ tokens[1][1] = "OpenBracket"
    /\ \A k \in 2..(Len(tokens) - 2) : tokens[k][1] \in {"Literal", "Range"}
    /\ tokens[Len(tokens) - 1][1] = "CloseBracket"
    /\ QuantifierCall(tokens[Len(tokens)]) # "none"

\* C13: a quantifier right after a bracket class is accepted: the class is
\* concatenated as one edge 0 -> 1 and the quantifier primitive is called
\* with the new active node 1 as its target.
C13_QuantifiedClassIsAccepted ==
    (pc = "done" /\ lex_result = "Ok" /\ ClassThenQuantifier(lex_string))
        => /\ result = "Ok"
           /\ Len(ops) = 2
           /\ ops[1][1] = "add_cost" /\ ops[1][2][1] = "Class"
           /\ ops[2] = <<QuantifierCall(lex_string[Len(lex_string)]), 1>>

----------------------------------------------------------------------------
(* The exit of a compiled automaton.                                        *)

Exits(g) == {i \in Handles(g) : NodeAt(g, i).edges = <<>>}

\* C14: after a successful compile exactly one node has no outgoing edge,
\* and it is the final active handle.
C14_UniqueExitIsActive ==
    (pc = "done" /\ result = "Ok") => Exits(graph) = {graph.active}

----------------------------------------------------------------------------
(* Inputs that are one bracket class holding a range: `[` then up to        *)
(* MaxPreLen literal members, then `s-e]`.  "(" sorts below the letters     *)
(* and "|" above them.                                                      *)

MaxPreLen == 1
RangeChars == {"(", "a", "b", "c", "|"}
RangePatterns ==
    {<<"[">> \o pre \o <<s, "-", e, "]">> :
        pre \in UNION {[1..n -> RangeChars] : n \in 0..MaxPreLen},
        s \in RangeChars, e \in RangeChars}

InitRange == InitIdle /\ pc = "lexer" /\ regex \in RangePatterns

SpecRange == InitRange /\ [][NextCompile]_vars

\* the range's bounds and the pattern's literal members, read off the text
RangeStart(re) == re[Len(re) - 3]
RangeEnd(re) == re[Len(re) - 1]
InRange(re, c) ==
    CharCode(RangeStart(re)) <= CharCode(c) /\ CharCode(c) <= CharCode(RangeEnd(re))
\* the characters the parser adds with plus_literal: the members before the
\* range and the range's end
AddedAsLiteral(re) == {re[k] : k \in 2..(Len(re) - 4)} \cup {RangeEnd(re)}
CompiledClass == ops[1][2][2]

\* C15: the class compiled from `[s-e]` contains every c with s <= c <= e,
\* both bounds included, and no character outside the range that was not
\* added as a literal.
C15_RangeIncludesBothBounds ==
    (pc = "done" /\ result = "Ok") =>
        /\ Len(ops) = 1 /\ ops[1][1] = "add_cost" /\ ops[1][2][1] = "Class"
        /\ \A c \in RangeChars :
              /\ InRange(regex, c) => is_in(CompiledClass, c)
              /\ (~InRange(regex, c) /\ c \notin AddedAsLiteral(regex))
                    => ~is_in(CompiledClass, c)

C15_Witness ==
    /\ pc = "done" /\ result = "Ok"
    /\ regex = <<"[", "a", "-", "c", "]">>
    /\ is_in(CompiledClass, "c") /\ is_in(CompiledClass, "a")
    /\ ~is_in(CompiledClass, "(") /\ ~is_in(CompiledClass, "|")

----------------------------------------------------------------------------
(* Inputs for the token list: every string of up to MaxTokLen characters    *)
(* of the whole alphabet, read at top level, right after `[`, and after a   *)
(* first class member.                                                      *)

MaxTokLen == 3
TokPrefixes == {<<>>, <<"[">>, <<"[", "a">>}
TokPatterns ==
    {pre \o w : pre \in TokPrefixes,
                w \in UNION {[1..n -> Alphabet] : n \in 0..MaxTokLen}}

InitTokens == InitIdle /\ pc = "lexer" /\ regex \in TokPatterns

SpecTokens == InitTokens /\ [][NextCompile]_vars

\* the reference tokenization, position by position
StructuralToken(c) ==
    CASE c = "(" -> <<"OpenParen">>   [] c = ")" -> <<"CloseParen">>
      [] c = "[" -> <<"OpenBracket">> [] c = "]" -> <<"CloseBracket">>
      [] c = "*" -> <<"Star">>        [] c = "?" -> <<"Question">>
      [] c = "+" -> <<"Plus">>        [] c = "." -> <<"Dot">>
      [] c = "|" -> <<"Bar">>
Structural == {"(", ")", "[", "]", "*", "?", "+", ".", "|"}

RefTokenAt(re, roles, i) ==
    CASE roles[i] = "plain" ->
             IF re[i] \in Structural THEN <<StructuralToken(re[i])>>
             ELSE <<<<"Literal", re[i]>>>>
      [] roles[i] = "escaped" ->
             IF re[i] \in Structural THEN <<<<"Literal", re[i]>>>>
             ELSE <<<<"Builtin", re[i]>>>>
      [] roles[i] = "open" -> <<<<"OpenBracket">>>>
      [] roles[i] = "close" -> <<<<"CloseBracket">>>>
      [] roles[i] = "member" ->
             IF i + 2 <= Len(re) /\ roles[i + 1] = "dash" THEN <<>>
             ELSE <<<<"Literal", re[i]>>>>
      [] roles[i] = "end" -> <<<<"Range", re[i - 2], re[i]>>>>
      [] OTHER -> <<>>

RECURSIVE RefTokensUpTo(_, _, _)
RefTokensUpTo(re, roles, n) ==
    IF n = 0 THEN <<>>
    ELSE RefTokensUpTo(re, roles, n - 1) \o RefTokenAt(re, roles, n)

RefTokens(re) == RefTokensUpTo(re, Roles(re, 1, FALSE), Len(re))

\* C16: for every pattern without a lexical error the lexer's token list is
\* the reference tokenization of the pattern.
C16_TokensAreReference ==
    (lex_result = "Ok" /\ ~DanglingEscape(regex)) => lex_string = RefTokens(regex)

C16_Witness ==
    /\ lex_result = "Ok"
    /\ regex = <<"[", "a", "(", "-", "[">>
    /\ lex_string = <<<<"OpenBracket">>, <<"Literal", "a">>, <<"Range", "(", "[">>>>

----------------------------------------------------------------------------
(* Which nodes a closing paren links to its merge node.                     *)

\* the parser's graph and state after its first n lexemes, none in error
RECURSIVE ParseAfter(_)
ParseAfter(n) ==
    IF n = 0 THEN ParseState(<<>>, OutOfClassWithoutQual, Graph_new, <<>>, FALSE)
    ELSE LET p == ParseAfter(n - 1)
         IN  parser_arm(lex_string[n], p.group_starts, p.state, p.graph)

\* parens opened minus parens closed among lexemes i..j
RECURSIVE ParenDepth(_, _)
ParenDepth(i, j) ==
    IF j < i THEN 0
    ELSE ParenDepth(i, j - 1)
         + (IF lex_string[j][1] = "OpenParen" THEN 1
            ELSE IF lex_string[j][1] = "CloseParen" THEN -1 ELSE 0)

\* the `(` that the `)` at lexeme k closes
MatchingOpen(k) ==
    CHOOSE j \in 1..(k - 1) :
        /\ lex_string[j][1] = "OpenParen"
        /\ ParenDepth(j, k) = 0
        /\ \A m \in (j + 1)..(k - 1) : ParenDepth(j, m) > 0

\* the lexemes that end an alternative of the group closed at k: its own
\* `|`s and the `)` itself
AlternativeEnds(k) ==
    {m \in (MatchingOpen(k) + 1)..k :
        /\ lex_string[m][1] \in {"Bar", "CloseParen"}
        /\ ParenDepth(MatchingOpen(k), m - 1) = 1}

\* the node each alternative of that group had reached when it ended
OwnBranchEnds(k) == {ParseAfter(m - 1).graph.active : m \in AlternativeEnds(k)}

\* the nodes that got an epsilon edge to the node created by lexeme k
LinkedByLexeme(k) ==
    LET before == ParseAfter(k - 1).graph
        after == ParseAfter(k).graph
    IN  {i \in Handles(before) :
            \E e \in EdgesOf(after, i) :
                e[1] >= Len(before.arena) /\ e[2] = None}

ClosedGroupAt(k) ==
    /\ pc \in {"parser", "done"}
    /\ k = next_lexeme /\ k >= 1
    /\ lex_string[k][1] = "CloseParen"

\* C17: when a closing paren is parsed, every node that gets an epsilon edge
\* to the new merge node is the end of one of that group's own alternatives.
C17_CloseLinksOnlyOwnBranches ==
    \A k \in 1..Len(lex_string) :
        ClosedGroupAt(k) => LinkedByLexeme(k) \subseteq OwnBranchEnds(k)

----------------------------------------------------------------------------
(* The arena only grows.                                                    *)

IsPrefix(s, t) == Len(s) <= Len(t) /\ SubSeq(t, 1, Len(s)) = s

\* every slot holds a node, every edge leads to a handle of the arena, and
\* the entry is node 0
WellFormed(g) ==
    /\ g.start = 0
    /\ InArena(g, g.active)
    /\ \A i \in Handles(g) :
          /\ DOMAIN NodeAt(g, i) = {"edges", "endlinked"}
          /\ \A e \in EdgesOf(g, i) : InArena(g, e[1])

\* from g to h no node is dropped or replaced and no edge is removed or
\* moved: each node's edge list in g is a prefix of its edge list in h
Extends(g, h) ==
    /\ Len(g.arena) <= Len(h.arena)
    /\ \A i \in Handles(g) : IsPrefix(NodeAt(g, i).edges, NodeAt(h, i).edges)

\* C18: in every state the parser's builder calls reach, every edge target
\* is a handle of the arena, every slot holds a node and start is 0; and no
\* step shrinks the arena, empties or reuses a slot, or removes or reorders
\* an edge.
C18_ArenaOnlyGrows ==
    [][WellFormed(graph) /\ WellFormed(graph') /\ Extends(graph, graph')]_vars

C18_Witness ==
    /\ pc = "done" /\ result = "Ok"
    /\ regex = <<"(", "a", "|", "a", ")">>
    /\ Len(graph.arena) = 4
    /\ NodeAt(graph, 0).edges = <<<<1, Some(<<"Singleton", "a">>)>>,
                                  <<2, Some(<<"Singleton", "a">>)>>>>
    /\ NodeAt(graph, 1).edges = <<<<3, None>>>>

----------------------------------------------------------------------------
(* The CharClass value type used on its own: plus_literal and plus_range    *)
(* applied to a class that starts empty.                                   *)

MaxClassOps == 2
ClassChars == {"(", "a", "b", "c", "|"}

CanCallClass == pc = "class" /\ Len(ops) < MaxClassOps

CallPlusLiteral ==
    /\ CanCallClass
    /\ \E c \in ClassChars :
          /\ char_class' = plus_literal(char_class, c)
          /\ ops' = Append(ops, <<"plus_literal", c>>)
    /\ UNCHANGED <<graph, regex, chars, lex_string, in_class, lex_result,
                   next_lexeme, group_starts, state, pc, result>>

CallPlusRange ==
    /\ CanCallClass
    /\ \E s \in ClassChars, e \in ClassChars :
          /\ char_class' = plus_range(char_class, s, e)
          /\ ops' = Append(ops, <<"plus_range", s, e>>)
    /\ UNCHANGED <<graph, regex, chars, lex_string, in_class, lex_result,
                   next_lexeme, group_starts, state, pc, result>>

InitClass == InitIdle /\ regex = <<>> /\ pc = "class"

NextClass ==
    \/ CallPlusLiteral
    \/ CallPlusRange

SpecClass == InitClass /\ [][NextClass]_vars

\* C19: after plus_range(s, e) on an empty class, is_in(c) is true exactly
\* for the characters c with s <= c <= e, the end e included.
C19_PlusRangeIsInclusive ==
    (pc = "class" /\ Len(ops) = 1 /\ ops[1][1] = "plus_range") =>
        \A c \in ClassChars :
            is_in(char_class, c)
                <=> (CharCode(ops[1][2]) <= CharCode(c) /\ CharCode(c) <= CharCode(ops[1][3]))

----------------------------------------------------------------------------
(* A quantifier right after a single-character atom.                        *)

QuantifiedAtom ==
    /\ pc = "done" /\ result = "Ok"
    /\ Len(lex_string) = 2
    /\ lex_string[1][1] \in {"Literal", "Dot"}
    /\ lex_string[2][1] \in Quantifiers

\* the one-character strings the atom matches
AtomLang(lexeme) ==
    {<<ch>> : ch \in {x \in SubjectChars :
                         IF lexeme[1] = "Dot" THEN TRUE ELSE x = lexeme[2]}}

QuantifiedLang(X, lexeme) ==
    CASE lexeme[1] = "Question" -> X \cup {<<>>}
      [] lexeme[1] = "Plus"     -> PlusLang(X)
      [] lexeme[1] = "Star"     -> StarLang(X)

\* C20: compiling an atom c followed by a quantifier gives an automaton
\* that, from node 0 to the final active node, accepts exactly c or nothing
\* for `?`, c^n (n >= 1) for `+` and c^n (n >= 0) for `*`.
C20_QuantifierQuantifiesAtom ==
    QuantifiedAtom =>
        Lang(graph, 0, graph.active)
            = QuantifiedLang(AtomLang(lex_string[1]), lex_string[2])

----------------------------------------------------------------------------
(* The active node under direct use of the builder.                         *)

\* C21: after any sequence of builder calls with in-range handles the
\* active node exists and is open-marked, and no call has tripped an
\* assertion: bump_endlinked's open-marker assert holds whenever add_cost
\* bumps the active node.
C21_ActiveIsOpenMarked ==
    pc = "api" =>
        /\ ~graph.panicked
        /\ InArena(graph, graph.active)
        /\ NodeAt(graph, graph.active).endlinked

C21_Witness ==
    /\ pc = "api" /\ ~graph.panicked
    /\ ops = <<<<"add_cost", <<"Singleton", "a">>>>, <<"add_junction", 0>>,
               <<"close_junction", 0>>, <<"add_cost", <<"Singleton", "a">>>>>>
    /\ graph.active = 3
    /\ NodeAt(graph, 3).endlinked /\ ~NodeAt(graph, 2).endlinked

====
